---- MODULE Spec2Model ----
(***************************************************************************)
(* Content-based movie recommender (analysis.ipynb).                       *)
(*                                                                         *)
(* The notebook is a pipeline of cells over pandas tables followed by two  *)
(* query functions.  A table is a sequence of rows (records), in row       *)
(* order.  Real numbers are kept exact: a profile component is a reduced   *)
(* fraction (or NaN for 0/0), a cosine similarity is kept as its square    *)
(* (all vectors are non-negative, so the square decides every comparison). *)
(***************************************************************************)
EXTENDS Integers, Sequences, FiniteSets, TLC

VARIABLES pc, movies, ratings, df, df_genres, genre_cols, user_profiles,
          movie_features, result

vars == <<pc, movies, ratings, df, df_genres, genre_cols, user_profiles,
          movie_features, result>>

---------------------------------------------------------------------------
(* Bounds of the input relations and of the queries.                       *)

MaxRatings == 3
MaxTopN == 2

MovieIds == {1, 2, 3}
QueryUserIds == {1, 2, 9}
QueryMovieIds == MovieIds \cup {9}

NoGenres == "(no genres listed)"

\* The genres column of movies.csv: labels separated by "|".
GenreFields == { <<"Action", "|", "Comedy">>, <<"Comedy">>, <<"Action">>,
                 <<NoGenres>> }

\* Python orders strings by code point: "" < "(no genres listed)" < "Action" < "Comedy".
LabelOrder == <<"", NoGenres, "Action", "Comedy">>

Titles == [m \in MovieIds |-> <<"title", m>>]

---------------------------------------------------------------------------
(* Generic helpers over sequences and numbers.                             *)

Range(s) == {s[i] : i \in 1..Len(s)}

RECURSIVE Concat(_)
Concat(ss) == IF ss = <<>> THEN <<>> ELSE Head(ss) \o Concat(Tail(ss))

RECURSIVE SumSeq(_)
SumSeq(s) == IF s = <<>> THEN 0 ELSE Head(s) + SumSeq(Tail(s))

RECURSIVE GCD(_, _)
GCD(a, b) == IF b = 0 THEN a ELSE GCD(b, a % b)

Min(a, b) == IF a <= b THEN a ELSE b

Injections(n) == {f \in [1..n -> 1..n] : \A i, j \in 1..n : f[i] = f[j] => i = j}

RowOrders(s) == {[i \in 1..Len(s) |-> s[f[i]]] : f \in Injections(Len(s))}

LabelRank(l) == CHOOSE i \in 1..Len(LabelOrder) : LabelOrder[i] = l

RECURSIVE SortedLabels(_)
SortedLabels(S) ==
    IF S = {} THEN <<>>
    ELSE LET m == CHOOSE x \in S : \A y \in S : LabelRank(x) <= LabelRank(y)
         IN <<m>> \o SortedLabels(S \ {m})

RECURSIVE SortedInts(_)
SortedInts(S) ==
    IF S = {} THEN <<>>
    ELSE LET m == CHOOSE x \in S : \A y \in S : x <= y
         IN <<m>> \o SortedInts(S \ {m})

---------------------------------------------------------------------------
(* Exact arithmetic.                                                       *)

NaN == [kind |-> "nan", num |-> 0, den |-> 0]

\* numpy float division n / d for n >= 0, d >= 0: 0/0 is NaN, n/0 is inf.
Div(n, d) ==
    IF d = 0 THEN (IF n = 0 THEN NaN ELSE [kind |-> "inf", num |-> 0, den |-> 0])
    ELSE LET g == GCD(n, d) IN [kind |-> "num", num |-> n \div g, den |-> d \div g]

IsFinite(x) == x.kind = "num"

---------------------------------------------------------------------------
(* The cleaning cells.                                                     *)

\* df = ratings.merge(movies, on="movieId"): inner join, left row order,
\* the matching right rows in right order.
Merge(rs, ms) ==
    Concat([i \in 1..Len(rs) |->
        LET hits == SelectSeq(ms, LAMBDA m : m.movieId = rs[i].movieId)
        IN [j \in 1..Len(hits) |->
              [userId |-> rs[i].userId, movieId |-> rs[i].movieId,
               rating |-> rs[i].rating, timestamp |-> rs[i].timestamp,
               title |-> hits[j].title, genres |-> hits[j].genres]]])

\* str.split("|"): the labels between the separators, empty ones included.
RECURSIVE SplitFrom(_, _, _)
SplitFrom(s, cur, acc) ==
    IF s = <<>> THEN Append(acc, cur)
    ELSE IF Head(s) = "|" THEN SplitFrom(Tail(s), "", Append(acc, cur))
    ELSE SplitFrom(Tail(s), cur \o Head(s), acc)

Split(field) == SplitFrom(field, "", <<>>)

\* df.explode("genres"): one row per element of the list, in list order.
Explode(rows) ==
    Concat([i \in 1..Len(rows) |->
        LET labels == Split(rows[i].genres)
        IN [j \in 1..Len(labels) |->
              [rows[i] EXCEPT !.genres = labels[j]]]])

\* df.drop("timestamp", axis=1)
DropTimestamp(rows) ==
    [i \in 1..Len(rows) |->
        [userId |-> rows[i].userId, movieId |-> rows[i].movieId,
         rating |-> rows[i].rating, title |-> rows[i].title,
         genres |-> rows[i].genres]]

\* drop_duplicates keeps the first row of every group of equal keys: the
\* positions, in order, of the keys no earlier position holds.
FirstOccurrences(keys) ==
    SelectSeq([i \in 1..Len(keys) |-> i],
              LAMBDA i : \A j \in 1..(i - 1) : keys[j] # keys[i])

\* No row is dropped.
KeepAllRows(rows) == rows

\* df.drop_duplicates(): the key is the whole row.
DropDuplicates(rows) ==
    LET keep == FirstOccurrences(rows) IN [k \in 1..Len(keep) |-> rows[keep[k]]]

\* df[df["genres"] != "(no genres listed)"]
FilterNoGenres(rows) == SelectSeq(rows, LAMBDA r : r.genres # NoGenres)

---------------------------------------------------------------------------
(* Feature engineering.                                                    *)

\* Dummy columns in the order the labels first appear in the rows.
DummyColumnsAsSeen(rows) ==
    LET labels == [i \in 1..Len(rows) |-> rows[i].genres]
        keep == FirstOccurrences(labels)
    IN [k \in 1..Len(keep) |-> labels[keep[k]]]

\* The dummy columns pd.get_dummies makes: one per distinct label, sorted.
DummyColumns(rows) == SortedLabels({rows[i].genres : i \in 1..Len(rows)})

\* Every row gets 1 in the column of every label its movie has in the rows.
GetDummiesPerMovie(rows) ==
    LET cols == {rows[i].genres : i \in 1..Len(rows)}
    IN [i \in 1..Len(rows) |->
          [userId |-> rows[i].userId, movieId |-> rows[i].movieId,
           rating |-> rows[i].rating, title |-> rows[i].title,
           genres |-> [c \in cols |->
                         IF \E j \in 1..Len(rows) :
                                rows[j].movieId = rows[i].movieId /\ rows[j].genres = c
                         THEN 1 ELSE 0]]]

\* pd.get_dummies(df, columns=["genres"], dtype=int): every row keeps its
\* other columns and gets 1 in the column of its own label, 0 elsewhere.
GetDummies(rows) ==
    LET cols == Range(DummyColumns(rows))
    IN [i \in 1..Len(rows) |->
          [userId |-> rows[i].userId, movieId |-> rows[i].movieId,
           rating |-> rows[i].rating, title |-> rows[i].title,
           genres |-> [c \in cols |-> IF rows[i].genres = c THEN 1 ELSE 0]]]

---------------------------------------------------------------------------
(* User profiles.                                                          *)

\* get_user_profile(user_df): per genre column, the sum of column * rating
\* over the rows of user_df, divided by the sum of the rating column.
get_user_profile(user_df, cols) ==
    LET mass == SumSeq([i \in 1..Len(user_df) |-> user_df[i].rating])
    IN [c \in Range(cols) |->
          Div(SumSeq([i \in 1..Len(user_df) |->
                        user_df[i].genres[c] * user_df[i].rating]), mass)]

\* df_genres.groupby("userId").apply(get_user_profile)
GroupByUser(rows, cols) ==
    [u \in {rows[i].userId : i \in 1..Len(rows)} |->
        get_user_profile(SelectSeq(rows, LAMBDA r : r.userId = u), cols)]

---------------------------------------------------------------------------
(* The movie feature table.                                                *)

\* df_genres.drop_duplicates("movieId")[["movieId", "title"] + genre_cols]
\*          .set_index("movieId")
MovieFeatures(rows, cols) ==
    LET keep == FirstOccurrences([i \in 1..Len(rows) |-> rows[i].movieId])
        firsts == [k \in 1..Len(keep) |-> rows[keep[k]]]
    IN [columns |-> <<"title">> \o cols,
        rows |-> [i \in 1..Len(firsts) |->
                    [movieId |-> firsts[i].movieId, title |-> firsts[i].title,
                     genres |-> [c \in Range(cols) |-> firsts[i].genres[c]]]],
        similarity |-> <<>>]

Index(mf) == {mf.rows[i].movieId : i \in 1..Len(mf.rows)}

Loc(mf, movie_id) == CHOOSE r \in Range(mf.rows) : r.movieId = movie_id

---------------------------------------------------------------------------
(* Cosine similarity (sklearn.metrics.pairwise.cosine_similarity).         *)
(* x is a vector of fractions, y a vector of integers, both non-negative;  *)
(* the value returned is the SQUARE of the cosine, as a reduced fraction.  *)

RECURSIVE LCMDen(_)
LCMDen(x) ==
    IF x = <<>> THEN 1
    ELSE LET l == LCMDen(Tail(x)) IN (Head(x).den * l) \div GCD(Head(x).den, l)

\* x scaled to integers by the common denominator of its components.
Scaled(x) == [i \in 1..Len(x) |-> x[i].num * (LCMDen(x) \div x[i].den)]

Dot(a, b) == SumSeq([i \in 1..Len(a) |-> a[i] * b[i]])

HasNaN(x) == \E i \in 1..Len(x) : ~IsFinite(x[i])

\* normalize() divides by the norm, a zero norm being replaced by 1, and the
\* similarity is the dot product of the normalized vectors.
cosine_similarity(x, y) ==
    LET X == Scaled(x)
    IN IF Dot(X, X) = 0 \/ Dot(y, y) = 0 THEN Div(0, 1)
       ELSE Div(Dot(X, y) * Dot(X, y), Dot(X, X) * Dot(y, y))

\* a >= b for two non-negative values given by their squares
Geq(a, b) == a.num * b.den >= b.num * a.den

---------------------------------------------------------------------------
(* The queries.                                                            *)

\* user_profiles.loc[user_id].values: the components in column order
UserVector(profiles, cols, user_id) ==
    [i \in 1..Len(cols) |-> profiles[user_id][cols[i]]]

\* movie_features[genre_cols].values, one vector per row
MovieVector(row, cols) == [i \in 1..Len(cols) |-> row.genres[cols[i]]]

\* df_genres[df_genres["userId"] == user_id]["movieId"]
AlreadyRated(rows, user_id) ==
    {rows[i].movieId : i \in {j \in 1..Len(rows) : rows[j].userId = user_id}}

\* DataFrame.head(n): the first n rows, or all but the last -n rows.
HeadRows(s, n) ==
    IF n >= 0 THEN SubSeq(s, 1, Min(n, Len(s)))
    ELSE SubSeq(s, 1, Len(s) + n)

\* sort_values("similarity") with the default ascending=True
SortValuesAscending(rows) ==
    {s \in RowOrders(rows) :
        \A i \in 1..(Len(s) - 1) : s[i + 1].similarity.num * s[i].similarity.den
                                      >= s[i].similarity.num * s[i + 1].similarity.den}

\* sort_values("similarity", ascending=False) with the default, unstable
\* sort: any order of the rows in which the similarity never increases.
SortValuesDescending(rows) ==
    {s \in RowOrders(rows) :
        \A i \in 1..(Len(s) - 1) : Geq(s[i].similarity, s[i + 1].similarity)}

\* user_vector.sum()
VectorSum(x) == Div(SumSeq(Scaled(x)), LCMDen(x))

\* The product clipped to the rating scale 0.5 .. 5 (squares 1/4 .. 25).
PredictedRatingClipped(similarity_score, total) ==
    LET n == similarity_score.num * total.num * total.num
        d == similarity_score.den * total.den * total.den
    IN IF 4 * n < d THEN Div(1, 4) ELSE IF n > 25 * d THEN Div(25, 1) ELSE Div(n, d)

\* similarity_score * user_vector.sum(), as the square of the product
PredictedRating(similarity_score, total) ==
    Div(similarity_score.num * total.num * total.num,
        similarity_score.den * total.den * total.den)

NoValue == Div(0, 1)

NoResult == [op |-> "none", user_id |-> 0, movie_id |-> 0, top_n |-> 0,
             status |-> "none", rows |-> <<>>, value |-> NoValue]

Raised(op, user_id, movie_id, top_n, error) ==
    [op |-> op, user_id |-> user_id, movie_id |-> movie_id, top_n |-> top_n,
     status |-> error, rows |-> <<>>, value |-> NoValue]

\* A lookup that answers a missing label with an empty frame.
EmptyAnswer(op, user_id, movie_id, top_n) ==
    [op |-> op, user_id |-> user_id, movie_id |-> movie_id, top_n |-> top_n,
     status |-> "returned", rows |-> <<>>, value |-> NoValue]

\* .loc[label] with a label the index does not have raises KeyError.
KeyError(op, user_id, movie_id, top_n) ==
    Raised(op, user_id, movie_id, top_n, "KeyError")

\* check_pairwise_arrays rejects an array that holds NaN or inf.
ValueError(op, user_id, movie_id, top_n) ==
    Raised(op, user_id, movie_id, top_n, "ValueError")

---------------------------------------------------------------------------
(* The input relations.                                                    *)

\* The genres fields each movie is given: movie 1 any field, movie 2 a single
\* genre, movie 3 Action.
GenreFieldsOf ==
    [m \in MovieIds |->
        IF m = 1 THEN GenreFields
        ELSE IF m = 2 THEN {<<"Comedy">>, <<"Action">>}
        ELSE {<<"Action">>}]

\* movies.csv: one row per movie id, in id order.
MovieTables ==
    {[i \in 1..Len(SortedInts(MovieIds)) |->
        [movieId |-> SortedInts(MovieIds)[i],
         title |-> Titles[SortedInts(MovieIds)[i]],
         genres |-> f[SortedInts(MovieIds)[i]]]] :
        f \in {g \in [MovieIds -> GenreFields] :
                  \A m \in MovieIds : g[m] \in GenreFieldsOf[m]}}

\* The rating events ratings.csv is drawn from: the two ratings of user 1 in
\* the scenario, a second rating of an already rated movie (a zero rating),
\* two ratings of a second user, and a rating of a movie id that movies.csv
\* does not have.
RatingEvents ==
    { [userId |-> 1, movieId |-> 1, rating |-> 4],
      [userId |-> 1, movieId |-> 2, rating |-> 2],
      [userId |-> 1, movieId |-> 1, rating |-> 0],
      [userId |-> 2, movieId |-> 3, rating |-> 4],
      [userId |-> 2, movieId |-> 2, rating |-> 4],
      [userId |-> 2, movieId |-> 9, rating |-> 2] }

\* ratings.csv: up to MaxRatings distinct events in any row order; the
\* timestamp of a row is its position.
RatingTables ==
    UNION {{[i \in 1..n |-> [userId |-> e[i].userId, movieId |-> e[i].movieId,
                              rating |-> e[i].rating, timestamp |-> i]] :
              e \in {f \in [1..n -> RatingEvents] :
                        \A i, j \in 1..n : f[i] = f[j] => i = j}} :
           n \in 0..MaxRatings}

---------------------------------------------------------------------------
(* The notebook: the cells in order, then any number of queries.           *)

Init ==
    /\ pc = "loaded"
    /\ movies \in MovieTables
    /\ ratings \in RatingTables
    /\ df = <<>>
    /\ df_genres = <<>>
    /\ genre_cols = <<>>
    /\ user_profiles = <<>>
    /\ movie_features = [columns |-> <<>>, rows |-> <<>>, similarity |-> <<>>]
    /\ result = NoResult

MergeCell ==
    /\ pc = "loaded"
    /\ df' = Merge(ratings, movies)
    /\ pc' = "merged"
    /\ UNCHANGED <<movies, ratings, df_genres, genre_cols, user_profiles,
                   movie_features, result>>

ExplodeCell ==
    /\ pc = "merged"
    /\ df' = Explode(df)
    /\ pc' = "exploded"
    /\ UNCHANGED <<movies, ratings, df_genres, genre_cols, user_profiles,
                   movie_features, result>>

DropDuplicatesCell ==
    /\ pc = "exploded"
    /\ df' = DropDuplicates(DropTimestamp(df))
    /\ pc' = "deduplicated"
    /\ UNCHANGED <<movies, ratings, df_genres, genre_cols, user_profiles,
                   movie_features, result>>

FilterNoGenresCell ==
    /\ pc = "deduplicated"
    /\ df' = FilterNoGenres(df)
    /\ pc' = "filtered"
    /\ UNCHANGED <<movies, ratings, df_genres, genre_cols, user_profiles,
                   movie_features, result>>

GetDummiesCell ==
    /\ pc = "filtered"
    /\ df_genres' = GetDummies(df)
    /\ genre_cols' = DummyColumns(df)
    /\ pc' = "encoded"
    /\ UNCHANGED <<movies, ratings, df, user_profiles, movie_features, result>>

UserProfilesCell ==
    /\ pc = "encoded"
    /\ user_profiles' = GroupByUser(df_genres, genre_cols)
    /\ pc' = "profiled"
    /\ UNCHANGED <<movies, ratings, df, df_genres, genre_cols, movie_features,
                   result>>

MovieFeaturesCell ==
    /\ pc = "profiled"
    /\ movie_features' = MovieFeatures(df_genres, genre_cols)
    /\ pc' = "ready"
    /\ UNCHANGED <<movies, ratings, df, df_genres, genre_cols, user_profiles,
                   result>>

\* movie_features["similarity"] = similarity_scores
WithSimilarity(mf, scores) ==
    [columns |-> IF "similarity" \in Range(mf.columns) THEN mf.columns
                 ELSE Append(mf.columns, "similarity"),
     rows |-> mf.rows,
     similarity |-> scores]

\* movie_features[movie_features.index.isin(already_rated)]
OnlyRated(mf, already_rated) ==
    LET keep == SelectSeq([i \in 1..Len(mf.rows) |-> i],
                          LAMBDA i : mf.rows[i].movieId \in already_rated)
    IN [k \in 1..Len(keep) |->
          [movieId |-> mf.rows[keep[k]].movieId, title |-> mf.rows[keep[k]].title,
           similarity |-> mf.similarity[keep[k]]]]

\* movie_features[~movie_features.index.isin(already_rated)]
NotRated(mf, already_rated) ==
    LET keep == SelectSeq([i \in 1..Len(mf.rows) |-> i],
                          LAMBDA i : mf.rows[i].movieId \notin already_rated)
    IN [k \in 1..Len(keep) |->
          [movieId |-> mf.rows[keep[k]].movieId, title |-> mf.rows[keep[k]].title,
           similarity |-> mf.similarity[keep[k]]]]

recommend_movies(user_id, top_n) ==
    /\ pc = "ready"
    /\ IF user_id \notin DOMAIN user_profiles
       THEN /\ result' = KeyError("recommend_movies", user_id, 0, top_n)
            /\ UNCHANGED movie_features
       ELSE LET user_vector == UserVector(user_profiles, genre_cols, user_id)
            IN IF HasNaN(user_vector)
               THEN /\ result' = ValueError("recommend_movies", user_id, 0, top_n)
                    /\ UNCHANGED movie_features
               ELSE LET similarity_scores ==
                            [i \in 1..Len(movie_features.rows) |->
                                cosine_similarity(user_vector,
                                    MovieVector(movie_features.rows[i], genre_cols))]
                        scored == WithSimilarity(movie_features, similarity_scores)
                        already_rated == AlreadyRated(df_genres, user_id)
                        recommendations == NotRated(scored, already_rated)
                    IN /\ movie_features' = scored
                       /\ \E sorted \in SortValuesDescending(recommendations) :
                             result' = [op |-> "recommend_movies", user_id |-> user_id,
                                        movie_id |-> 0, top_n |-> top_n,
                                        status |-> "returned",
                                        rows |-> HeadRows(sorted, top_n),
                                        value |-> NoValue]
    /\ UNCHANGED <<pc, movies, ratings, df, df_genres, genre_cols, user_profiles>>

predict_rating(user_id, movie_id) ==
    /\ pc = "ready"
    /\ result' =
         IF user_id \notin DOMAIN user_profiles \/ movie_id \notin Index(movie_features)
         THEN KeyError("predict_rating", user_id, movie_id, 0)
         ELSE LET user_vector == UserVector(user_profiles, genre_cols, user_id)
                  movie_vector == MovieVector(Loc(movie_features, movie_id), genre_cols)
              IN IF HasNaN(user_vector)
                 THEN ValueError("predict_rating", user_id, movie_id, 0)
                 ELSE [op |-> "predict_rating", user_id |-> user_id,
                       movie_id |-> movie_id, top_n |-> 0, status |-> "returned",
                       rows |-> <<>>,
                       value |-> PredictedRating(
                                    cosine_similarity(user_vector, movie_vector),
                                    VectorSum(user_vector))]
    /\ UNCHANGED <<pc, movies, ratings, df, df_genres, genre_cols, user_profiles,
                   movie_features>>

Next ==
    \/ MergeCell
    \/ ExplodeCell
    \/ DropDuplicatesCell
    \/ FilterNoGenresCell
    \/ GetDummiesCell
    \/ UserProfilesCell
    \/ MovieFeaturesCell
    \/ \E user_id \in QueryUserIds, top_n \in 0..MaxTopN :
          recommend_movies(user_id, top_n)
    \/ \E user_id \in QueryUserIds, movie_id \in QueryMovieIds :
          predict_rating(user_id, movie_id)

Spec == Init /\ [][Next]_vars

\* Rating events a ratings.csv with repeated rows is drawn from: a rating, a
\* different rating of the same movie by the same user, and a second user's.
RepeatedEvents ==
    { [userId |-> 1, movieId |-> 1, rating |-> 4],
      [userId |-> 1, movieId |-> 1, rating |-> 0],
      [userId |-> 2, movieId |-> 3, rating |-> 4] }

\* ratings.csv: up to MaxRatings rows, the same event any number of times
\* (the rows of one event differ in their timestamp only).
RepeatedRatingTables ==
    UNION {{[i \in 1..n |-> [userId |-> e[i].userId, movieId |-> e[i].movieId,
                              rating |-> e[i].rating, timestamp |-> i]] :
              e \in [1..n -> RepeatedEvents]} : n \in 0..MaxRatings}

InitRepeated ==
    /\ pc = "loaded"
    /\ movies \in MovieTables
    /\ ratings \in RepeatedRatingTables
    /\ df = <<>>
    /\ df_genres = <<>>
    /\ genre_cols = <<>>
    /\ user_profiles = <<>>
    /\ movie_features = [columns |-> <<>>, rows |-> <<>>, similarity |-> <<>>]
    /\ result = NoResult

\* The notebook run on a ratings.csv that may repeat events.
SpecRepeated == InitRepeated /\ [][Next]_vars

---------------------------------------------------------------------------
(* What the claims speak of.                                               *)

Built == pc = "ready"

Returned(op) == result.op = op /\ result.status = "returned"

\* The cleaned genre set of a movie: its labels in the cleaned table df.
GenreSet(movie_id) ==
    {df[i].genres : i \in {j \in 1..Len(df) : df[j].movieId = movie_id}}

\* The cleaned rating events of a user: one (movie, rating) per event.
EventsOf(user_id) ==
    {<<df[i].movieId, df[i].rating>> :
        i \in {j \in 1..Len(df) : df[j].userId = user_id}}

\* The movie ids of the raw rating events of a user (rows of ratings.csv).
RawRated(user_id) ==
    {ratings[i].movieId : i \in {j \in 1..Len(ratings) : ratings[j].userId = user_id}}

\* The sum of the weights of a set of <<item, weight>> pairs.
RECURSIVE SumWeights(_)
SumWeights(S) ==
    IF S = {} THEN 0
    ELSE LET x == CHOOSE y \in S : TRUE IN x[2] + SumWeights(S \ {x})

RatingMass(user_id) == SumWeights({<<e, e[2]>> : e \in EventsOf(user_id)})

GenreMass(user_id, g) ==
    SumWeights({<<e, IF g \in GenreSet(e[1]) THEN e[2] ELSE 0>> :
                  e \in EventsOf(user_id)})

\* C1: every catalog movie's genre vector has one component per vocabulary
\* label, each 0 or 1, and component g is 1 exactly when the movie's cleaned
\* genre set contains g.
C1_GenreVectorIsGenreSet ==
    Built =>
        \A i \in 1..Len(movie_features.rows) :
            LET row == movie_features.rows[i]
            IN /\ DOMAIN row.genres = Range(genre_cols)
               /\ \A g \in Range(genre_cols) :
                    /\ row.genres[g] \in {0, 1}
                    /\ (row.genres[g] = 1) <=> (g \in GenreSet(row.movieId))

\* C2: for every user with positive rating mass, profile[g] is the rating
\* mass of the rated movies that have genre g divided by the rating mass of
\* all rated movies, each movie counted once, and lies in [0, 1].
C2_ProfileIsWeightedMean ==
    Built =>
        \A u \in DOMAIN user_profiles :
            RatingMass(u) > 0 =>
                \A g \in Range(genre_cols) :
                    /\ user_profiles[u][g] = Div(GenreMass(u, g), RatingMass(u))
                    /\ user_profiles[u][g].num <= user_profiles[u][g].den

\* C3: a returned recommendation list holds no movie id of any raw rating
\* event of the user.
C3_NeverRecommendsRated ==
    Returned("recommend_movies") =>
        \A i \in 1..Len(result.rows) :
            result.rows[i].movieId \notin RawRated(result.user_id)

\* A non-empty list for a user one of whose raw ratings the cleaning dropped.
C3_Witness ==
    /\ Returned("recommend_movies")
    /\ Len(result.rows) >= 1
    /\ RawRated(result.user_id) \ AlreadyRated(df_genres, result.user_id) # {}

SameValue(a, b) == a.num * b.den = b.num * a.den

Unrated(user_id) == Index(movie_features) \ RawRated(user_id)

ScenarioMovies ==
    << [movieId |-> 1, title |-> Titles[1], genres |-> <<"Action", "|", "Comedy">>],
       [movieId |-> 2, title |-> Titles[2], genres |-> <<"Comedy">>],
       [movieId |-> 3, title |-> Titles[3], genres |-> <<"Action">>] >>

ScenarioRatings ==
    << [userId |-> 1, movieId |-> 1, rating |-> 4, timestamp |-> 1],
       [userId |-> 1, movieId |-> 2, rating |-> 2, timestamp |-> 2] >>

\* C5: with movies 1 {Action, Comedy}, 2 {Comedy}, 3 {Action} and the ratings
\* 4 for movie 1 and 2 for movie 2 of one user, recommend(user, 1) returns
\* exactly one entry, movie 3.
C5_ScenarioRecommendsMovie3 ==
    ( /\ movies = ScenarioMovies
      /\ ratings = ScenarioRatings
      /\ result.op = "recommend_movies"
      /\ result.user_id = 1
      /\ result.top_n = 1 ) =>
        /\ result.status = "returned"
        /\ Len(result.rows) = 1
        /\ result.rows[1].movieId = 3

\* C6: a returned prediction is the similarity of the user's profile and the
\* movie's catalog vector times the sum of the profile's components, unclipped
\* (both sides as squares, compared by cross multiplication).
C6_PredictionIsSimilarityTimesSum ==
    Returned("predict_rating") =>
        LET user_vector == UserVector(user_profiles, genre_cols, result.user_id)
            movie_vector == MovieVector(Loc(movie_features, result.movie_id), genre_cols)
            sim == cosine_similarity(user_vector, movie_vector)
            total == VectorSum(user_vector)
        IN /\ IsFinite(result.value)
           /\ result.value.num * (sim.den * total.den * total.den)
                = result.value.den * (sim.num * total.num * total.num)

\* A prediction strictly between 0 and 1.
C6_Witness ==
    /\ Returned("predict_rating")
    /\ result.value.num > 0
    /\ result.value.num < result.value.den

UnknownQuery(r) ==
    /\ r.op \in {"recommend_movies", "predict_rating"}
    /\ \/ r.user_id \notin DOMAIN user_profiles
       \/ r.op = "predict_rating" /\ r.movie_id \notin Index(movie_features)

\* C7: a query for an unknown user or an unknown movie ends in KeyError, never
\* in a value, and leaves the catalog, the profiles and everything else a
\* later query reads as they were.
C7_UnknownQueryFails ==
    [][(Built /\ UnknownQuery(result')) =>
          /\ result'.status = "KeyError"
          /\ UNCHANGED <<movie_features, user_profiles, df_genres, genre_cols>>]_vars

\* A failed query after a successful recommendation filled the catalog table.
C7_Witness ==
    /\ Built
    /\ UnknownQuery(result)
    /\ result.status = "KeyError"
    /\ movie_features.similarity # <<>>

\* C8: a recommend_movies call changes none of movie_features, user_profiles
\* and df_genres.
C8_RecommendHasNoSideEffects ==
    [][(Built /\ result'.op = "recommend_movies") =>
          UNCHANGED <<movie_features, user_profiles, df_genres>>]_vars

\* The cells from the merge to the no-genres filter, as one function.
CleanFrame(rs, ms) ==
    FilterNoGenres(DropDuplicates(DropTimestamp(Explode(Merge(rs, ms)))))

\* The catalog as a mapping from movie id to title and genre vector.
Catalog(mf) ==
    [m \in Index(mf) |-> [title |-> Loc(mf, m).title, genres |-> Loc(mf, m).genres]]

\* C9: the same movie records and rating events in any other row order give
\* the same catalog, the same vocabulary order and the same user profiles.
C9_RowOrderIndependent ==
    (Built /\ result = NoResult) =>
        \A rs \in RowOrders(ratings), ms \in RowOrders(movies) :
            LET frame == CleanFrame(rs, ms)
                cols == DummyColumns(frame)
                encoded == GetDummies(frame)
            IN /\ cols = genre_cols
               /\ GroupByUser(encoded, cols) = user_profiles
               /\ Catalog(MovieFeatures(encoded, cols)) = Catalog(movie_features)

\* Two users, two movies, and the vocabulary's last label met first.
C9_Witness ==
    /\ Built
    /\ result = NoResult
    /\ Cardinality(DOMAIN user_profiles) = 2
    /\ Cardinality(Index(movie_features)) >= 2
    /\ Len(genre_cols) = 2
    /\ df[1].genres = genre_cols[2]

\* C10: no profile with an undefined component is produced: a user whose
\* ratings are all 0 is left out of user_profiles or gets a defined vector.
C10_NoUndefinedProfile ==
    \A u \in DOMAIN user_profiles :
        \A g \in DOMAIN user_profiles[u] : IsFinite(user_profiles[u][g])

\* The cleaning stage (timestamp dropped, duplicates dropped) is done.
Cleaned == pc \in {"deduplicated", "filtered", "encoded", "profiled", "ready"}

\* C11 as stated: after the cleaning stage the rows of one user and one
\* movie all carry the same rating: one event per (user, movie) pair.
C11_OneEventPerUserMovie ==
    Cleaned =>
        \A i, j \in 1..Len(df) :
            (df[i].userId = df[j].userId /\ df[i].movieId = df[j].movieId)
                => df[i].rating = df[j].rating

\* C11 amended: after the cleaning stage there is one event per (user,
\* movie, rating) triple: no two rows of df, and none of df_genres, agree on
\* user, movie, rating and genre.
C11_OneEventPerUserMovieRating ==
    Cleaned =>
        /\ \A i, j \in 1..Len(df) :
              ( /\ df[i].userId = df[j].userId
                /\ df[i].movieId = df[j].movieId
                /\ df[i].rating = df[j].rating
                /\ df[i].genres = df[j].genres ) => i = j
        /\ \A i, j \in 1..Len(df_genres) : df_genres[i] = df_genres[j] => i = j

\* ratings.csv held the same event twice and the event is in the cleaned df.
C11_Witness ==
    /\ Cleaned
    /\ \E i, j \in 1..Len(ratings) :
          /\ i # j
          /\ ratings[i].userId = ratings[j].userId
          /\ ratings[i].movieId = ratings[j].movieId
          /\ ratings[i].rating = ratings[j].rating
          /\ \E k \in 1..Len(df) :
                /\ df[k].userId = ratings[i].userId
                /\ df[k].movieId = ratings[i].movieId
                /\ df[k].rating = ratings[i].rating

\* C12: the profile of every user of positive rating mass sums to exactly 1,
\* and so a returned prediction is the cosine similarity of the profile and
\* the movie's catalog vector itself, at most 1.
C12_ProfileSumsToOne ==
    Built =>
        /\ \A u \in DOMAIN user_profiles :
              RatingMass(u) > 0 =>
                  VectorSum(UserVector(user_profiles, genre_cols, u)) = Div(1, 1)
        /\ Returned("predict_rating") =>
              /\ result.value =
                    cosine_similarity(
                        UserVector(user_profiles, genre_cols, result.user_id),
                        MovieVector(Loc(movie_features, result.movie_id), genre_cols))
              /\ result.value.num <= result.value.den

\* A prediction strictly between 0 and 1 for a user whose profile has two
\* positive components.
C12_Witness ==
    /\ Returned("predict_rating")
    /\ result.value.num > 0
    /\ result.value.num < result.value.den
    /\ RatingMass(result.user_id) > 0
    /\ Cardinality({g \in Range(genre_cols) :
                       user_profiles[result.user_id][g].num > 0}) = 2

====
